---- MODULE Spec2Model ----
(***************************************************************************)
(* Model of app/api/youtube.py: the video identifier extractors, Video and *)
(* VideoCollection.                                                        *)
(*                                                                         *)
(* A Python string is a sequence of one-character strings, so that the    *)
(* regular expression of extract_video_id_from_web_url and the slice of   *)
(* extract_video_id_from_api_uri are computed character by character.     *)
(***************************************************************************)
EXTENDS Integers, Sequences, FiniteSets, TLC

VARIABLES
    pc,       \* "call": the drawn call is about to run; "done": it has run
    call,     \* the invocation: function name, argument, how the argument was composed
    ret,      \* outcome of the invocation: value returned or exception raised
    video,    \* the caller's Video object (its _entry), or NoObject
    coll,     \* the caller's VideoCollection (its _videos), or NoObject
    catalog,  \* identifiers the remote service has a video entry for
    trace     \* extractor and yt_service calls made by the last operation, in order

vars == <<pc, call, ret, video, coll, catalog, trace>>

----------------------------------------------------------------------------
(* Bounds of the model                                                     *)

\* number of leading characters of an identifier that range over IdChars
VarLen == 2

\* longest raw string over RawChars handed to the extractors
MaxStrLen == 4

\* length of a video identifier: the slice width of extract_video_id_from_api_uri
IdLen == 11

----------------------------------------------------------------------------
(* Characters and character classes of video_id_re                         *)

Lower == {"a","b","c","d","e","f","g","h","i","j","k","l","m",
          "n","o","p","q","r","s","t","u","v","w","x","y","z"}
Upper == {"A","B","C","D","E","F","G","H","I","J","K","L","M",
          "N","O","P","Q","R","S","T","U","V","W","X","Y","Z"}
Digit == {"0","1","2","3","4","5","6","7","8","9"}

Least(S) == CHOOSE x \in S : \A y \in S : x <= y

\* [a-zA-Z0-9-]
InAlnumDash(c) == c \in Lower \cup Upper \cup Digit \cup {"-"}

\* a class that forgets to stop at &: [^\n]
InNotAmp_NoAmp(c) == c # "\n"

\* [^&\n]
InNotAmp(c) == c \notin {"&", "\n"}

\* a class that forgets to stop at the quote: [^&\n]
InNotQuoteAmp_NoQuote(c) == c \notin {"&", "\n"}

\* [^"&\n]
InNotQuoteAmp(c) == c \notin {"\"", "&", "\n"}

InClass(cls, c) ==
    CASE cls = "alnumdash"   -> InAlnumDash(c)
      [] cls = "notamp"      -> InNotAmp(c)
      [] cls = "notquoteamp" -> InNotQuoteAmp(c)

\* s[i..j] as Python's s[i-1:j]; empty when j < i
Slice(s, i, j) == IF j < i THEN << >> ELSE SubSeq(s, i, j)

\* number of consecutive characters of s from position p that are in cls
\* (the greedy extent of cls+ from p): up to the first character outside
\* cls, or to the end of s
Run(s, p, cls) ==
    LET stops == {q \in p .. Len(s) : ~InClass(cls, s[q])}
    IN  IF stops = {} THEN Len(s) - p + 1 ELSE Least(stops) - p

\* (?<=(?:v|i)=) at p: the two characters before p are v or i, then =
BehindEq(s, p) ==
    /\ p >= 3
    /\ s[p - 2] \in {"v", "i"}
    /\ s[p - 1] = "="

\* (?<=(?:v|i)\/) at p
BehindSlash(s, p) ==
    /\ p >= 3
    /\ s[p - 2] \in {"v", "i"}
    /\ s[p - 1] = "/"

\* (?<=embed\/) at p
BehindEmbed(s, p) ==
    /\ p >= 7
    /\ Slice(s, p - 6, p - 1) = <<"e","m","b","e","d","/">>

\* (?<=youtu.be\/) at p: the dot is unescaped and stands for any character
\* but a newline
BehindYoutuBe(s, p) ==
    /\ p >= 10
    /\ Slice(s, p - 9, p - 5) = <<"y","o","u","t","u">>
    /\ s[p - 4] # "\n"
    /\ Slice(s, p - 3, p - 1) = <<"b","e","/">>

\* the alternatives of video_id_re in the order they are written
Alternatives == 1 .. 5

\* length of the match of alternative a starting at position p of s, 0 when
\* it does not match there (every alternative matches at least one character)
AltLen(s, p, a) ==
    CASE a = 1 ->
           \* (?<=(?:v|i)=)[a-zA-Z0-9-]+(?=&): greedy, backtracking to the
           \* longest extent that is followed by &
           IF ~BehindEq(s, p) THEN 0
           ELSE LET r  == Run(s, p, "alnumdash")
                    ok == {k \in 1 .. r : p + k <= Len(s) /\ s[p + k] = "&"}
                IN  IF ok = {} THEN 0
                    ELSE CHOOSE k \in ok : \A j \in ok : j <= k
      [] a = 2 -> IF BehindSlash(s, p) THEN Run(s, p, "notamp") ELSE 0
      [] a = 3 -> IF BehindEmbed(s, p) THEN Run(s, p, "notquoteamp") ELSE 0
      [] a = 4 -> IF BehindEq(s, p) THEN Run(s, p, "notamp") ELSE 0
      [] a = 5 -> IF BehindYoutuBe(s, p) THEN Run(s, p, "notamp") ELSE 0

NoMatch == [start |-> 0, len |-> 0, alt |-> 0]

\* the regex engine at one start position: the alternatives are tried in
\* order and the first that matches there is taken
RECURSIVE MatchAt(_, _, _)
MatchAt(s, p, a) ==
    IF a > 5 THEN NoMatch
    ELSE IF AltLen(s, p, a) > 0
         THEN [start |-> p, len |-> AltLen(s, p, a), alt |-> a]
         ELSE MatchAt(s, p, a + 1)

\* a search that prefers the earliest-listed alternative matching anywhere
\* from p on, wherever it matches
SearchFrom_ByAlternative(s, p) ==
    LET At(a) == {q \in p .. Len(s) + 1 : AltLen(s, q, a) > 0}
        alts  == {a \in Alternatives : At(a) # {}}
    IN  IF alts = {} THEN NoMatch
        ELSE LET a == Least(alts)
                 q == Least(At(a))
             IN  [start |-> q, len |-> AltLen(s, q, a), alt |-> a]

\* re.search: start positions are tried from left to right, and the first
\* position at which the pattern matches gives the match
RECURSIVE SearchFrom(_, _)
SearchFrom(s, p) ==
    IF p > Len(s) + 1 THEN NoMatch
    ELSE LET m == MatchAt(s, p, 1)
         IN  IF m # NoMatch THEN m ELSE SearchFrom(s, p + 1)

\* re.match in place of re.search: the pattern is tried at the start only
re_search_AsMatch(s) == MatchAt(s, 1, 1)

re_search(s) == SearchFrom(s, 1)

\* matches.group(0)
Group0(s, m) == Slice(s, m.start, m.start + m.len - 1)

----------------------------------------------------------------------------
(* Outcomes of a call                                                      *)

Return(v)   == [kind |-> "return", exc |-> "", val |-> v]
Raise(e, v) == [kind |-> "raise", exc |-> e, val |-> v]
Pending     == [kind |-> "pending", exc |-> "", val |-> << >>]

extract_video_id_from_web_url(url) ==
    LET matches == re_search(url)
    IN  IF matches = NoMatch
        THEN Raise("VideoIdentifierError", url)
        ELSE Return(Group0(url, matches))

\* a slice one character short: uri[-10:]
extract_video_id_from_api_uri_Last10(uri) ==
    LET start == IF Len(uri) - (IdLen - 1) < 0 THEN 0 ELSE Len(uri) - (IdLen - 1)
    IN  Return(Slice(uri, start + 1, Len(uri)))

\* uri[-11:]: a start of -11 is clamped to the beginning of the string
extract_video_id_from_api_uri(uri) ==
    LET start == IF Len(uri) - IdLen < 0 THEN 0 ELSE Len(uri) - IdLen
    IN  Return(Slice(uri, start + 1, Len(uri)))

----------------------------------------------------------------------------
(* Arguments handed to the extractors                                      *)

NoObject == [none |-> TRUE]

\* all strings of length n over the characters cs
RECURSIVE Strs(_, _)
Strs(cs, n) ==
    IF n = 0 THEN {<< >>}
    ELSE {Append(s, c) : s \in Strs(cs, n - 1), c \in cs}

StrsUpTo(cs, n) == UNION {Strs(cs, k) : k \in 0 .. n}

\* identifiers: IdLen characters of [a-zA-Z0-9_-]; the first VarLen range
\* over IdChars, the rest are those of the doctests' identifier
IdChars == {"9", "b", "v", "i", "_", "-"}
DocId   == <<"9","b","Z","k","p","7","q","1","9","f","0">>
Ids     == {h \o SubSeq(DocId, VarLen + 1, IdLen) : h \in Strs(IdChars, VarLen)}

HttpWww   == <<"h","t","t","p",":","/","/","w","w","w",".","y","o","u","t","u","b","e",".","c","o","m","/">>
Host      == <<"y","o","u","t","u","b","e",".","c","o","m","/">>
ShortHost == <<"y","o","u","t","u",".","b","e","/">>
Watch     == <<"w","a","t","c","h","?">>
Feature   == <<"f","e","a","t","u","r","e","=","g","-","a","l","l","-","f">>
Context   == <<"c","o","n","t","e","x","t","=","G","2","7","f","3","6","4","e","F","A","A","A","A","A","A","A","A","A","A","A">>
IframeHead == <<"<","i","f","r","a","m","e"," ","w","i","d","t","h","=","\"","5","6","0","\""," ","h","e","i","g","h","t","=","\"","3","1","5","\""," ","s","r","c","=","\"","h","t","t","p",":","/","/","w","w","w",".","y","o","u","t","u","b","e",".","c","o","m","/","e","m","b","e","d","/">>
IframeTail == <<"\""," ","f","r","a","m","e","b","o","r","d","e","r","=","\"","0","\""," ","a","l","l","o","w","f","u","l","l","s","c","r","e","e","n",">","<","/","i","f","r","a","m","e",">">>
Vimeo     == <<"h","t","t","p",":","/","/","v","i","m","e","o",".","c","o","m","/","4","8","1","0","0","4","7","3">>
ApiPrefix == <<"h","t","t","p",":","/","/","g","d","a","t","a",".","y","o","u","t","u","b","e",".","c","o","m","/","f","e","e","d","s","/","a","p","i","/","v","i","d","e","o","s","/">>

Amp == <<"&">>

\* the URL shapes of the doctests (lines 32-51), with v= and vi= in both
\* query positions
Shapes == {"watch_v_first", "watch_vi_first", "watch_v_after", "watch_vi_after",
           "iframe", "path_v", "path_vi", "bare_v", "bare_vi",
           "watch_v", "watch_vi", "short"}

ShapeUrl(shape, id) ==
    CASE shape = "watch_v_first"  -> HttpWww \o Watch \o <<"v","=">> \o id \o Amp \o Feature \o Amp \o Context
      [] shape = "watch_vi_first" -> HttpWww \o Watch \o <<"v","i","=">> \o id \o Amp \o Feature \o Amp \o Context
      [] shape = "watch_v_after"  -> HttpWww \o Watch \o Feature \o Amp \o <<"v","=">> \o id \o Amp \o Context
      [] shape = "watch_vi_after" -> HttpWww \o Watch \o Feature \o Amp \o <<"v","i","=">> \o id \o Amp \o Context
      [] shape = "iframe"         -> IframeHead \o id \o IframeTail
      [] shape = "path_v"         -> Host \o <<"v","/">> \o id
      [] shape = "path_vi"        -> Host \o <<"v","i","/">> \o id
      [] shape = "bare_v"         -> Host \o <<"?","v","=">> \o id
      [] shape = "bare_vi"        -> Host \o <<"?","v","i","=">> \o id
      [] shape = "watch_v"        -> Host \o Watch \o <<"v","=">> \o id
      [] shape = "watch_vi"       -> Host \o Watch \o <<"v","i","=">> \o id
      [] shape = "short"          -> ShortHost \o id

\* a watch URL with v=ID and one other query parameter, in either order
ParamNames  == {<<"f","e","a","t","u","r","e">>, <<"l","i","s","t">>, <<"t">>, <<"s","i">>}
ParamValues == {<<"g","-","a","l","l","-","f">>, <<"P","L","1">>}
Orders      == {"v_first", "v_last"}

QueryUrl(order, name, value, id) ==
    LET other == name \o <<"=">> \o value
        v     == <<"v","=">> \o id
    IN  IF order = "v_first"
        THEN HttpWww \o Watch \o v \o Amp \o other
        ELSE HttpWww \o Watch \o other \o Amp \o v

\* a supported form followed by the identifier and a terminator
Forms == {"v=", "vi=", "v/", "vi/", "embed/", "youtu.be/"}
Terms == {"amp", "end", "quote"}

FormHead(form) ==
    CASE form = "v="        -> HttpWww \o Watch \o <<"v","=">>
      [] form = "vi="       -> HttpWww \o Watch \o <<"v","i","=">>
      [] form = "v/"        -> HttpWww \o <<"v","/">>
      [] form = "vi/"       -> HttpWww \o <<"v","i","/">>
      [] form = "embed/"    -> HttpWww \o <<"e","m","b","e","d","/">>
      [] form = "youtu.be/" -> <<"h","t","t","p",":","/","/">> \o ShortHost

TermTail(term) ==
    CASE term = "amp"   -> <<"&","h","d","=","1">>
      [] term = "end"   -> << >>
      [] term = "quote" -> <<"\""," ","w","i","d","t","h","=","\"","5","6","0","\"">>

TermUrl(form, term, id) == FormHead(form) \o id \o TermTail(term)

\* two markers in one string, so that several alternatives can match at
\* different positions
Markers == {<<"v","=">>, <<"v","i","=">>, <<"v","/">>, <<"e","m","b","e","d","/">>,
            <<"y","o","u","t","u",".","b","e","/">>, <<"x","=">>}
Joints  == {<<"&">>, <<"?">>, <<"\"">>}
Tails   == {<< >>, <<"&","t","=","1">>}
Texts   == {<<"a","b">>, <<"c","_","d">>}

PairUrl(m1, t1, j, m2, t2, tail) == Host \o m1 \o t1 \o j \o m2 \o t2 \o tail

\* short raw strings over the characters the pattern is sensitive to
RawChars == {"v", "=", "/", "&", "a", "\"", "\n"}

fn_web == "extract_video_id_from_web_url"
fn_api == "extract_video_id_from_api_uri"

WebCalls ==
    {[fn |-> fn_web, fam |-> "shape", shape |-> sh, id |-> id, arg |-> ShapeUrl(sh, id)] :
        sh \in Shapes, id \in Ids}
    \cup
    {[fn |-> fn_web, fam |-> "query", order |-> o, name |-> n, value |-> v, id |-> id,
      arg |-> QueryUrl(o, n, v, id)] :
        o \in Orders, n \in ParamNames, v \in ParamValues, id \in Ids}
    \cup
    {[fn |-> fn_web, fam |-> "term", form |-> f, term |-> t, id |-> id,
      arg |-> TermUrl(f, t, id)] :
        f \in Forms, t \in Terms, id \in Ids}
    \cup
    {[fn |-> fn_web, fam |-> "pair", arg |-> PairUrl(m1, t1, j, m2, t2, tail)] :
        m1 \in Markers, t1 \in Texts, j \in Joints, m2 \in Markers, t2 \in Texts,
        tail \in Tails}
    \cup
    {[fn |-> fn_web, fam |-> "raw", arg |-> s] :
        s \in StrsUpTo(RawChars, MaxStrLen) \cup {Vimeo}}

\* API URIs: a prefix followed by an identifier, every suffix of an
\* identifier (lengths 0 .. IdLen), and short raw strings
ApiPrefixes == {ApiPrefix, << >>, <<"/">>}

ApiCalls ==
    {[fn |-> fn_api, fam |-> "prefixed", prefix |-> p, id |-> id, arg |-> p \o id] :
        p \in ApiPrefixes, id \in Ids}
    \cup
    {[fn |-> fn_api, fam |-> "suffix", arg |-> Slice(id, k, IdLen)] :
        id \in Ids, k \in 2 .. IdLen + 1}
    \cup
    {[fn |-> fn_api, fam |-> "raw", arg |-> s] : s \in StrsUpTo(RawChars, MaxStrLen)}

----------------------------------------------------------------------------
(* The extractors applied to one drawn argument                            *)

InitExtract ==
    /\ pc = "call"
    /\ call \in WebCalls \cup ApiCalls
    /\ ret = Pending
    /\ video = NoObject
    /\ coll = NoObject
    /\ catalog = {}
    /\ trace = << >>

WebUrlCall ==
    /\ pc = "call"
    /\ call.fn = fn_web
    /\ ret' = extract_video_id_from_web_url(call.arg)
    /\ pc' = "done"
    /\ UNCHANGED <<call, video, coll, catalog, trace>>

ApiUriCall ==
    /\ pc = "call"
    /\ call.fn = fn_api
    /\ ret' = extract_video_id_from_api_uri(call.arg)
    /\ pc' = "done"
    /\ UNCHANGED <<call, video, coll, catalog, trace>>

NextExtract == WebUrlCall \/ ApiUriCall

SpecExtract == InitExtract /\ [][NextExtract]_vars

----------------------------------------------------------------------------
(* Properties of the extractors, under SpecExtract                         *)

WebDone == pc = "done" /\ call.fn = fn_web
ApiDone == pc = "done" /\ call.fn = fn_api

\* the characters of a string
Chars(s) == {s[k] : k \in 1 .. Len(s)}

\* positions at which alternative a matches in s
MatchPositions(s, a) == {p \in 1 .. Len(s) + 1 : AltLen(s, p, a) > 0}

\* alternatives that match somewhere in s
MatchingAlts(s) == {a \in Alternatives : MatchPositions(s, a) # {}}

\* C1: for every identifier and every URL shape of the doctests (v= or vi=
\* first or after feature=..., the iframe snippet, youtu.be/, v/, vi/, bare
\* ?v= and ?vi=) the extractor returns exactly the identifier.
C1_ShapesReturnId ==
    (WebDone /\ call.fam = "shape") => ret = Return(call.id)

\* the iframe snippet with an identifier holding _ has been extracted
C1_Witness ==
    /\ WebDone
    /\ call.fam = "shape"
    /\ call.shape = "iframe"
    /\ "_" \in Chars(call.id)
    /\ ret = Return(call.id)

\* C2: VideoIdentifierError carrying the unmodified input is raised exactly
\* when no alternative matches at any position; otherwise a value is
\* returned.
C2_RaisesIffNoMatch ==
    WebDone =>
        /\ (ret = Raise("VideoIdentifierError", call.arg)) <=> (MatchingAlts(call.arg) = {})
        /\ (MatchingAlts(call.arg) # {}) => ret.kind = "return"

\* the unsupported URL of the doctest has raised, carrying itself
C2_Witness ==
    /\ WebDone
    /\ call.arg = Vimeo
    /\ ret = Raise("VideoIdentifierError", Vimeo)

\* C3: v=ID before or after any other query parameter name=value yields ID.
C3_OrderIrrelevant ==
    (WebDone /\ call.fam = "query") => ret = Return(call.id)

\* C6: the API URI extractor never fails and returns the last IdLen
\* characters of its input (all of it when shorter); a prefix followed by an
\* identifier gives the identifier.
C6_LastElevenChars ==
    ApiDone =>
        LET uri == call.arg
            n   == IF Len(uri) < 11 THEN Len(uri) ELSE 11
        IN  /\ ret.kind = "return"
            /\ Len(ret.val) = n
            /\ \A k \in 1 .. n : ret.val[k] = uri[Len(uri) - n + k]
            /\ call.fam = "prefixed" => ret.val = call.id

\* the identifier has been sliced off an API URI
C6_Witness ==
    /\ ApiDone
    /\ call.fam = "prefixed"
    /\ call.prefix = ApiPrefix
    /\ ret = Return(call.id)

\* C8 as stated: the capture of the earliest-listed alternative that matches
\* anywhere is returned, wherever it matches.
C8_FirstListedWins ==
    (WebDone /\ ret.kind = "return") =>
        LET s == call.arg
            a == Least(MatchingAlts(s))
            p == Least(MatchPositions(s, a))
        IN  ret.val = Slice(s, p, p + AltLen(s, p, a) - 1)

\* C8 amended: the match starting at the leftmost position at which any
\* alternative matches is returned; the order of the alternatives decides
\* only between alternatives matching at that same position.
C8_LeftmostPositionWins ==
    (WebDone /\ ret.kind = "return") =>
        LET s == call.arg
            p == Least(UNION {MatchPositions(s, a) : a \in Alternatives})
            a == Least({b \in Alternatives : AltLen(s, p, b) > 0})
        IN  ret.val = Slice(s, p, p + AltLen(s, p, a) - 1)

\* a later-listed alternative matching further left has beaten an
\* earlier-listed one matching further right
C8_Witness ==
    /\ WebDone
    /\ ret.kind = "return"
    /\ call.fam = "pair"
    /\ LET s == call.arg
           a == Least(MatchingAlts(s))
           p == Least(UNION {MatchPositions(s, b) : b \in Alternatives})
       IN  /\ AltLen(s, p, a) = 0
           /\ p < Least(MatchPositions(s, a))
           /\ ret.val = Slice(s, p, p + Len(ret.val) - 1)

----------------------------------------------------------------------------
(* Video and VideoCollection                                               *)

\* longest feed, list of videos and list of URLs handed to a constructor
MaxLen == 2

\* identifiers of the videos the caller asks about
IdA == DocId
IdB == <<"-","_","v","i","d","e","o","0","0","0","2">>
ObjIds == {IdA, IdB}

\* the entry the service holds for an identifier: its id text is the API URI
EntryOf(video_id) == [id_text |-> ApiPrefix \o video_id]

\* entries handed to Video(...) and found in feeds: one of the service, and
\* one whose id text is no API URI (nothing validates it)
Entries == {EntryOf(IdA), [id_text |-> <<"x","y","z">>]}

\* sequences over S of length at most n
SeqsUpTo(S, n) == StrsUpTo(S, n)

\* a YouTubeVideoFeed: its entry list
Feeds == {[entry |-> es] : es \in SeqsUpTo(Entries, MaxLen)}

UrlA   == ShapeUrl("short", IdA)
UrlB   == ShapeUrl("watch_v", IdB)
ObjUrls == {UrlA, UrlB, Vimeo}

\* events of the trace
\* the arguments the constructors and the service draw from
UrlLists   == SeqsUpTo(ObjUrls, MaxLen)
VideoLists == SeqsUpTo({[entry |-> e] : e \in Entries}, MaxLen)
Responses  == {Return(feed) : feed \in Feeds} \cup {Raise("RequestError", << >>)}
Keys       == -(MaxLen + 1) .. MaxLen

\* extract_video_id_from_web_url over the URLs the caller uses, computed once
WebUrlId == [url \in ObjUrls |-> extract_video_id_from_web_url(url)]

ExtractEv(url)     == [ev |-> fn_web, arg |-> url]
LookupEv(video_id) == [ev |-> "GetYouTubeVideoEntry", arg |-> video_id]
RelatedEv(video_id) == [ev |-> "GetYouTubeRelatedVideoFeed", arg |-> video_id]

\* yt_service.GetYouTubeVideoEntry(video_id=...): the entry, or the
\* service's error for an identifier it has no video for
GetYouTubeVideoEntry(video_id) ==
    IF video_id \in catalog
    THEN Return(EntryOf(video_id))
    ELSE Raise("RequestError", video_id)

\* Video.__init__
Video(entry) == [entry |-> entry]

\* Video.from_web_url: the outcome and the calls made
Video_from_web_url(url) ==
    LET video_id == WebUrlId[url]
    IN  IF video_id.kind = "raise"
        THEN [out |-> video_id, trace |-> <<ExtractEv(url)>>]
        ELSE LET entry == GetYouTubeVideoEntry(video_id.val)
                 tr    == <<ExtractEv(url), LookupEv(video_id.val)>>
             IN  IF entry.kind = "raise"
                 THEN [out |-> entry, trace |-> tr]
                 ELSE [out |-> Return(Video(entry.val)), trace |-> tr]

\* the whole resource identifier handed on in place of its last characters
Video_video_id_WholeUri(v) == v.entry.id_text

\* Video._video_id
Video_video_id(v) == extract_video_id_from_api_uri(v.entry.id_text).val

\* VideoCollection.__init__: the videos are appended one by one to a new list
RECURSIVE AppendAll(_, _)
AppendAll(acc, videos) ==
    IF videos = << >> THEN acc
    ELSE AppendAll(Append(acc, Head(videos)), Tail(videos))

VideoCollection(videos) == [videos |-> AppendAll(<< >>, videos)]

\* a loop that inserts each video at the front
RECURSIVE WrapEntries_Prepend(_, _)
WrapEntries_Prepend(videos, entries) ==
    IF entries = << >> THEN videos
    ELSE WrapEntries_Prepend(<<Video(Head(entries))>> \o videos, Tail(entries))

\* the loop of VideoCollection.from_feed
RECURSIVE WrapEntries(_, _)
WrapEntries(videos, entries) ==
    IF entries = << >> THEN videos
    ELSE WrapEntries(Append(videos, Video(Head(entries))), Tail(entries))

from_feed(feed) == VideoCollection(WrapEntries(<< >>, feed.entry))

\* a map that skips a URL whose construction raises and goes on
RECURSIVE MapFromWebUrl_SkipFailed(_, _, _)
MapFromWebUrl_SkipFailed(urls, videos, tr) ==
    IF urls = << >> THEN [out |-> Return(videos), trace |-> tr]
    ELSE IF Video_from_web_url(Head(urls)).out.kind = "raise"
         THEN MapFromWebUrl_SkipFailed(Tail(urls), videos,
                                       tr \o Video_from_web_url(Head(urls)).trace)
         ELSE MapFromWebUrl_SkipFailed(Tail(urls),
                                       Append(videos, Video_from_web_url(Head(urls)).out.val),
                                       tr \o Video_from_web_url(Head(urls)).trace)

\* map(Video.from_web_url, urls): the URLs are taken in order and the first
\* exception ends the map
RECURSIVE MapFromWebUrl(_, _, _)
MapFromWebUrl(urls, videos, tr) ==
    IF urls = << >> THEN [out |-> Return(videos), trace |-> tr]
    ELSE LET r == Video_from_web_url(Head(urls))
         IN  IF r.out.kind = "raise"
             THEN [out |-> r.out, trace |-> tr \o r.trace]
             ELSE MapFromWebUrl(Tail(urls), Append(videos, r.out.val), tr \o r.trace)

\* cls(...) applied to the result of the map: reached only when the map
\* raised nothing
ClsOfMap(m) ==
    IF m.out.kind = "raise" THEN m
    ELSE [out |-> Return(VideoCollection(m.out.val)), trace |-> m.trace]

from_web_urls(urls) == ClsOfMap(MapFromWebUrl(urls, << >>, << >>))

\* list.__getitem__ with an integer key: a negative key counts from the end
getitem(videos, key) ==
    LET k == IF key < 0 THEN key + Len(videos) ELSE key
    IN  IF k < 0 \/ k >= Len(videos)
        THEN Raise("IndexError", << >>)
        ELSE Return(videos[k + 1])

\* random.choice(seq): any element; an empty seq makes its indexing raise
\* IndexError
random_choice(seq) ==
    IF seq = << >>
    THEN {Raise("IndexError", << >>)}
    ELSE {Return(seq[k]) : k \in 1 .. Len(seq)}

Init ==
    /\ pc = "idle"
    /\ call = [fn |-> "none"]
    /\ ret = Pending
    /\ video = NoObject
    /\ coll = NoObject
    /\ catalog \in SUBSET ObjIds
    /\ trace = << >>

\* Video(entry)
NewVideo ==
    \E entry \in Entries :
        /\ call' = [fn |-> "Video", entry |-> entry]
        /\ video' = Video(entry)
        /\ ret' = Return(video')
        /\ trace' = << >>
        /\ pc' = "done"
        /\ UNCHANGED <<coll, catalog>>

\* Video.from_web_url(url)
FromWebUrl ==
    \E url \in ObjUrls :
        /\ call' = [fn |-> "from_web_url", url |-> url]
        /\ ret' = Video_from_web_url(url).out
        /\ trace' = Video_from_web_url(url).trace
        /\ video' = IF ret'.kind = "return" THEN ret'.val ELSE video
        /\ pc' = "done"
        /\ UNCHANGED <<coll, catalog>>

\* video.related(): the service answers with a feed or with an error
Related ==
    /\ video # NoObject
    /\ \E resp \in Responses :
        /\ call' = [fn |-> "related", resp |-> resp]
        /\ trace' = <<RelatedEv(Video_video_id(video))>>
        /\ ret' = IF resp.kind = "raise" THEN resp ELSE Return(from_feed(resp.val))
        /\ coll' = IF resp.kind = "raise" THEN coll ELSE from_feed(resp.val)
        /\ pc' = "done"
        /\ UNCHANGED <<video, catalog>>

\* VideoCollection(videos)
NewCollection ==
    \E videos \in VideoLists :
        /\ call' = [fn |-> "VideoCollection", videos |-> videos]
        /\ coll' = VideoCollection(videos)
        /\ ret' = Return(coll')
        /\ trace' = << >>
        /\ pc' = "done"
        /\ UNCHANGED <<video, catalog>>

\* VideoCollection.from_feed(feed)
FromFeed ==
    \E feed \in Feeds :
        /\ call' = [fn |-> "from_feed", feed |-> feed]
        /\ coll' = from_feed(feed)
        /\ ret' = Return(coll')
        /\ trace' = << >>
        /\ pc' = "done"
        /\ UNCHANGED <<video, catalog>>

\* VideoCollection.from_web_urls(urls)
FromWebUrls ==
    \E urls \in UrlLists :
        /\ call' = [fn |-> "from_web_urls", urls |-> urls]
        /\ ret' = from_web_urls(urls).out
        /\ trace' = from_web_urls(urls).trace
        /\ coll' = IF ret'.kind = "return" THEN ret'.val ELSE coll
        /\ pc' = "done"
        /\ UNCHANGED <<video, catalog>>

\* collection[key]
GetItem ==
    /\ coll # NoObject
    /\ \E key \in Keys :
        /\ call' = [fn |-> "__getitem__", key |-> key]
        /\ ret' = getitem(coll.videos, key)
        /\ trace' = << >>
        /\ pc' = "done"
        /\ UNCHANGED <<video, coll, catalog>>

\* len(collection)
LenOf ==
    /\ coll # NoObject
    /\ call' = [fn |-> "__len__"]
    /\ ret' = Return(Len(coll.videos))
    /\ trace' = << >>
    /\ pc' = "done"
    /\ UNCHANGED <<video, coll, catalog>>

\* collection.random()
Random ==
    /\ coll # NoObject
    /\ call' = [fn |-> "random"]
    /\ ret' \in random_choice(coll.videos)
    /\ trace' = << >>
    /\ pc' = "done"
    /\ UNCHANGED <<video, coll, catalog>>

Next ==
    \/ NewVideo
    \/ FromWebUrl
    \/ Related
    \/ NewCollection
    \/ FromFeed
    \/ FromWebUrls
    \/ GetItem
    \/ LenOf
    \/ Random

Spec == Init /\ [][Next]_vars

----------------------------------------------------------------------------
(* Properties of Video and VideoCollection, under Spec                     *)

Done(fn) == pc = "done" /\ call.fn = fn

IsExtractEv(e) == e.ev = fn_web
IsLookupEv(e)  == e.ev = "GetYouTubeVideoEntry"

\* C4: from_web_urls takes the URLs in input order, extraction then one
\* lookup per URL; the first failure propagates unchanged, nothing is
\* returned and no later URL is parsed or looked up; without a failure the
\* result has one Video per URL in input order.
C4_AllOrNothingInOrder ==
    Done("from_web_urls") =>
        LET urls     == call.urls
            Id(i)    == extract_video_id_from_web_url(urls[i])
            Fails(i) == Id(i).kind = "raise" \/ Id(i).val \notin catalog
            bad      == {i \in 1 .. Len(urls) : Fails(i)}
            last     == IF bad = {} THEN Len(urls) ELSE Least(bad)
            looked   == IF bad # {} /\ Id(last).kind = "raise" THEN last - 1 ELSE last
            extracts == SelectSeq(trace, IsExtractEv)
            lookups  == SelectSeq(trace, IsLookupEv)
        IN  /\ Len(trace) = last + looked
            /\ Len(extracts) = last
            /\ \A i \in 1 .. last : extracts[i].arg = urls[i]
            /\ Len(lookups) = looked
            /\ \A i \in 1 .. looked : lookups[i].arg = Id(i).val
            /\ \A j \in 1 .. Len(trace) :
                 IsLookupEv(trace[j]) =>
                    /\ j > 1
                    /\ IsExtractEv(trace[j - 1])
                    /\ extract_video_id_from_web_url(trace[j - 1].arg).val = trace[j].arg
            /\ IF bad = {}
               THEN /\ ret.kind = "return"
                    /\ Len(ret.val.videos) = Len(urls)
                    /\ \A i \in 1 .. Len(urls) :
                         ret.val.videos[i] = [entry |-> EntryOf(Id(i).val)]
               ELSE /\ ret.kind = "raise"
                    /\ IF Id(last).kind = "raise"
                       THEN ret.exc = "VideoIdentifierError" /\ ret.val = urls[last]
                       ELSE ret.exc = "RequestError" /\ ret.val = Id(last).val

\* a valid URL followed by the unsupported one: the first was looked up,
\* the second raised and nothing was returned
C4_Witness ==
    /\ Done("from_web_urls")
    /\ Len(call.urls) >= 2
    /\ call.urls[1] = UrlA
    /\ call.urls[2] = Vimeo
    /\ IdA \in catalog
    /\ ret.kind = "raise"
    /\ ret.exc = "VideoIdentifierError"
    /\ trace = <<ExtractEv(UrlA), LookupEv(IdA), ExtractEv(Vimeo)>>

\* C5: random() returns an element of a non-empty collection and fails
\* with EmptyCollectionError on an empty one.
C5_RandomContract ==
    Done("random") =>
        IF coll.videos # << >>
        THEN /\ ret.kind = "return"
             /\ \E k \in 1 .. Len(coll.videos) : ret.val = coll.videos[k]
        ELSE /\ ret.kind = "raise"
             /\ ret.exc = "EmptyCollectionError"

\* C7: from_feed keeps the count and the order of the feed's entries: the
\* collection has the feed's length and its item at index i wraps entry i.
C7_FromFeedPreservesOrder ==
    Done("from_feed") =>
        LET entries == call.feed.entry
            n       == Len(entries)
        IN  /\ ret.kind = "return"
            /\ coll = ret.val
            /\ Len(coll.videos) = n
            /\ \A i \in 0 .. n - 1 :
                 /\ getitem(coll.videos, i).kind = "return"
                 /\ getitem(coll.videos, i).val.entry = entries[i + 1]

\* a feed whose first two entries differ has been wrapped
C7_Witness ==
    /\ Done("from_feed")
    /\ Len(call.feed.entry) >= 2
    /\ call.feed.entry[1] # call.feed.entry[2]
    /\ Len(coll.videos) = Len(call.feed.entry)
    /\ coll.videos[1].entry = call.feed.entry[1]
    /\ coll.videos[2].entry = call.feed.entry[2]

\* C10: related() makes exactly one service call, the related-videos feed
\* lookup with the last 11 characters of the record's resource identifier,
\* makes no video lookup, returns the feed's entries wrapped in feed order
\* and leaves the Video's record unchanged.
C10_RelatedOneFeedCall ==
    [][call'.fn = "related" =>
        LET t == video.entry.id_text
            n == IF Len(t) < 11 THEN Len(t) ELSE 11
        IN  /\ video' = video
            /\ Len(trace') = 1
            /\ trace'[1].ev = "GetYouTubeRelatedVideoFeed"
            /\ Len(trace'[1].arg) = n
            /\ \A k \in 1 .. n : trace'[1].arg[k] = t[Len(t) - n + k]
            /\ call'.resp.kind = "return" =>
                 /\ ret'.kind = "return"
                 /\ Len(ret'.val.videos) = Len(call'.resp.val.entry)
                 /\ \A i \in 1 .. Len(call'.resp.val.entry) :
                      ret'.val.videos[i] = [entry |-> call'.resp.val.entry[i]]
    ]_vars

\* related() on the video of IdA has returned a feed of two entries
C10_Witness ==
    /\ Done("related")
    /\ video = [entry |-> EntryOf(IdA)]
    /\ trace = <<RelatedEv(IdA)>>
    /\ ret.kind = "return"
    /\ Len(ret.val.videos) = 2
    /\ ret.val.videos[1] # ret.val.videos[2]

====
